---- MODULE Spec2Model ----
(***************************************************************************)
(* Model of the RESTlet request-parameter validator of suitescript-utils   *)
(* (validateRequestParam and its helpers, the variant with enumerated      *)
(* 'values' schemas and 'overloaded' schemas).                             *)
(*                                                                         *)
(* The validator is a pure function of (paramValue, schema).  The state    *)
(* machine draws one (schema, paramValue) pair in Init and the action      *)
(* Validate applies the function to it and records what the call produced: *)
(* null, an error record, or a thrown exception.                           *)
(*                                                                         *)
(* The custom-id formatter fieldId of common.ts is a pure function of a    *)
(* slug; the specification SpecIds draws a slug and applies it.            *)
(* restletError.asResponse is a pure function of an error and a status;    *)
(* the specification SpecResponse draws them and applies it.               *)
(* table1 and table2 are two Table2d objects and call is the last method   *)
(* called on them with its arguments; SpecTables iterates and unions them, *)
(* SpecJoin joins them and SpecSummarize summarizes table1.                *)
(***************************************************************************)
EXTENDS Integers, Sequences, FiniteSets, TLC

VARIABLES schema, paramValue, result, pc, slug, errorArg, statusArg,
          table1, table2, call

vars == <<schema, paramValue, result, pc, slug, errorArg, statusArg,
          table1, table2, call>>

(***************************************************************************)
(* JSON values.  Every value is a record tagged by k.  An object keeps its *)
(* entries as a sequence, in key insertion order, with distinct keys.      *)
(***************************************************************************)
JUndefined == [k |-> "undefined"]

JNull == [k |-> "null"]

JStr(s) == [k |-> "string", s |-> s]

JNum(n) == [k |-> "number", n |-> n]

JBool(b) == [k |-> "boolean", b |-> b]

JArr(items) == [k |-> "array", items |-> items]

JObj(entries) == [k |-> "object", entries |-> entries]

Entry(key, val) == [key |-> key, val |-> val]

\* The built-in constructor functions reachable through the prototype chain.
NativeFunction(name) == [k |-> "function", name |-> name]

IsPrimitiveValue(val) == val.k \in {"string", "number", "boolean", "null"}

OwnKeys(val) ==
  IF val.k = "object" THEN {val.entries[i].key : i \in DOMAIN val.entries} ELSE {}

OwnProperty(val, key) ==
  LET i == CHOOSE j \in DOMAIN val.entries : val.entries[j].key = key
  IN val.entries[i].val

\* Property names every plain object inherits from Object.prototype.
ObjectPrototypeKeys ==
  {"constructor", "toString", "toLocaleString", "valueOf", "hasOwnProperty",
   "isPrototypeOf", "propertyIsEnumerable", "__proto__"}

\* JavaScript `key in obj` for a plain object: own keys and inherited ones.
HasProperty(val, key) == key \in OwnKeys(val) \/ key \in ObjectPrototypeKeys

\* JavaScript `typeof val`.
TypeOf(val) ==
  CASE val.k \in {"string", "number", "boolean", "undefined", "function"} -> val.k
    [] OTHER -> "object"

\* `val.length` of a non-primitive, non-null value.
LengthOf(val) ==
  IF val.k = "array" THEN JNum(Len(val.items))
  ELSE IF "length" \in OwnKeys(val) THEN OwnProperty(val, "length")
  ELSE JUndefined

\* `val.constructor` of a non-primitive, non-null value.
ConstructorOf(val) ==
  IF val.k = "array" THEN NativeFunction("Array")
  ELSE IF "constructor" \in OwnKeys(val) THEN OwnProperty(val, "constructor")
  ELSE NativeFunction("Object")

\* `c.name` for a value c that is neither null nor undefined.
NameOf(c) ==
  IF c.k = "function" THEN JStr(c.name)
  ELSE IF c.k = "object" /\ "name" \in OwnKeys(c) THEN OwnProperty(c, "name")
  ELSE JUndefined

\* `val[index]` for a non-primitive, non-null value and an integer index.
ElementAt(val, index) ==
  IF val.k = "array"
  THEN IF index < Len(val.items) THEN val.items[index + 1] ELSE JUndefined
  ELSE IF ToString(index) \in OwnKeys(val) THEN OwnProperty(val, ToString(index))
  ELSE JUndefined

(***************************************************************************)
(* Outcomes of a call: null, an error record, or a thrown exception.       *)
(***************************************************************************)
Valid == [kind |-> "null"]

Thrown(error) == [kind |-> "throw", error |-> error]

TypeError == "TypeError"

UnreachableReached == "NG_UNREACHABLE_REACHED"

ErrorRecord(status, name, message) ==
  [kind |-> "error", status |-> status, name |-> name, message |-> message]

HttpBadRequest == 400

RootName == "[root or array member]"

MissingRequiredName == "Request Error - Missing Required Parameter"

InvalidNameName == "Request Error - Invalid Parameter Name"

IncorrectTypeName == "Request Error - Incorrect Parameter Type"

IncorrectValueName == "Request Error - Incorrect Parameter Value"

(***************************************************************************)
(* String conversions used by the error messages.                          *)
(***************************************************************************)
RECURSIVE JoinWith(_, _)
\* Array.prototype.join on a sequence of strings.
JoinWith(strs, sep) ==
  IF Len(strs) = 0 THEN ""
  ELSE IF Len(strs) = 1 THEN strs[1]
  ELSE strs[1] \o sep \o JoinWith(Tail(strs), sep)

RECURSIVE StringOfThrows(_)
\* Whether the template-literal conversion `${val}` throws: a plain object
\* whose own key 'toString' shadows Object.prototype.toString has no callable
\* toString and no valueOf that yields a primitive.
StringOfThrows(val) ==
  CASE val.k = "object" -> "toString" \in OwnKeys(val)
    [] val.k = "array" ->
         \E i \in DOMAIN val.items : StringOfThrows(val.items[i])
    [] OTHER -> FALSE

RECURSIVE StringOf(_)
\* The template-literal conversion `${val}` of a value for which it does not
\* throw.
StringOf(val) ==
  CASE val.k = "string" -> val.s
    [] val.k = "number" -> ToString(val.n)
    [] val.k = "boolean" -> IF val.b THEN "true" ELSE "false"
    [] val.k = "null" -> "null"
    [] val.k = "undefined" -> "undefined"
    [] val.k = "array" ->
         JoinWith([i \in DOMAIN val.items |->
                     IF val.items[i].k \in {"null", "undefined"} THEN ""
                     ELSE StringOf(val.items[i])], ",")
    [] OTHER -> "[object Object]"

\* JSON.stringify of one primitive (the strings of the model hold no
\* character that JSON escapes).
JsonStringifyPrimitive(val) ==
  CASE val.k = "string" -> "\"" \o val.s \o "\""
    [] val.k = "number" -> ToString(val.n)
    [] val.k = "boolean" -> IF val.b THEN "true" ELSE "false"
    [] OTHER -> "null"

\* JSON.stringify of an array of primitives.
JsonStringify(values) ==
  "[" \o JoinWith([i \in DOMAIN values |-> JsonStringifyPrimitive(values[i])], ",")
      \o "]"

(***************************************************************************)
(* restletError: the four error constructors.                              *)
(***************************************************************************)
missingRequiredParam(paramName) ==
  ErrorRecord(HttpBadRequest, MissingRequiredName,
    "The parameter '" \o paramName
      \o "' was missing from the request, but is required for this endpoint.")

\* wrongParamName as it would be with the status of a resource not found.
wrongParamName_NotFoundStatus(paramName) ==
  ErrorRecord(404, InvalidNameName,
    "The parameter with name '" \o paramName \o "' was unexpected in this request.")

wrongParamName(paramName) ==
  ErrorRecord(HttpBadRequest, InvalidNameName,
    "The parameter with name '" \o paramName \o "' was unexpected in this request.")

wrongParamType(paramName, paramTypeName, expectedTypeName) ==
  ErrorRecord(HttpBadRequest, IncorrectTypeName,
    "The parameter '" \o paramName \o "' has the type '" \o paramTypeName
      \o "', but was expected to have the type '" \o expectedTypeName
      \o "' instead.")

\* wrongParamValue as it would be if its message ended with a period.
wrongParamValue_WithPeriod(paramName, val, expectedParamValues) ==
  IF StringOfThrows(val) THEN Thrown(TypeError)
  ELSE ErrorRecord(HttpBadRequest, IncorrectValueName,
         "The parameter '" \o paramName \o "' with the value '" \o StringOf(val)
           \o "' was not found in the expected value list: '"
           \o JsonStringify(expectedParamValues) \o "'.")

wrongParamValue(paramName, val, expectedParamValues) ==
  IF StringOfThrows(val) THEN Thrown(TypeError)
  ELSE ErrorRecord(HttpBadRequest, IncorrectValueName,
         "The parameter '" \o paramName \o "' with the value '" \o StringOf(val)
           \o "' was not found in the expected value list: '"
           \o JsonStringify(expectedParamValues) \o "'")

\* `error?.name`, `error?.message`: undefined for null and undefined, the
\* own property of an object, and undefined where there is none.
OptionalProperty(val, key) ==
  IF val.k = "object" /\ key \in OwnKeys(val) THEN OwnProperty(val, key)
  ELSE JUndefined

\* asResponse as it would be if the status were tested for truthiness.
asResponse_TruthyStatus(err, st) ==
  LET name == OptionalProperty(err, "name")
      message == OptionalProperty(err, "message")
  IN IF st # JUndefined /\ st # JNum(0)
          /\ TypeOf(name) = "string" /\ TypeOf(message) = "string"
     THEN ErrorRecord(st.n, name.s, message.s)
     ELSE ErrorRecord(500, "NG_UNKNOWN_ERROR",
            "Something unexpected went wrong in the RESTlet endpoint.")

\* restletError.asResponse; the status is undefined or a number.
asResponse(err, st) ==
  LET name == OptionalProperty(err, "name")
      message == OptionalProperty(err, "message")
  IN IF st # JUndefined /\ TypeOf(name) = "string" /\ TypeOf(message) = "string"
     THEN ErrorRecord(st.n, name.s, message.s)
     ELSE ErrorRecord(500, "NG_UNKNOWN_ERROR",
            "Something unexpected went wrong in the RESTlet endpoint.")

\* The arguments of asResponse while no call of it is modelled.
IdleResponse == errorArg = JUndefined /\ statusArg = JUndefined

(***************************************************************************)
(* Table2d<T> of table-2d.ts.  A table is its columns, its rows and its     *)
(* #iteratorIndex; #columnIndicesCached only memoises findIndex over        *)
(* columns, which no method assigns, and is left out.  Cells are JSON       *)
(* values.  Indices are zero-based as in the source; a sequence position is *)
(* the index plus one.                                                      *)
(***************************************************************************)
\* new Table2d(columns, rows).
Table2d(columns, rows) ==
  [columns |-> columns, rows |-> rows, iteratorIndex |-> -1]

\* What getColumnIndexByName hands back for null.
NoColumn == -1

\* getColumnIndexByName: the index of the first column with that label, or
\* null.
getColumnIndexByName(t, label) ==
  LET found == {p \in DOMAIN t.columns : t.columns[p] = label}
  IN IF found = {} THEN NoColumn
     ELSE (CHOOSE p \in found : \A q \in found : p <= q) - 1

length(t) == Len(t.rows)

\* get(row, label) for a row of the table.
get(t, row, label) ==
  LET col == getColumnIndexByName(t, label)
  IN IF col = NoColumn THEN JNull ELSE t.rows[row + 1][col + 1]

\* rows.at(index) ?? [] for a non-negative index.
AtOrEmpty(t, index) ==
  IF index < Len(t.rows) THEN t.rows[index + 1] ELSE <<>>

\* Array.prototype.includes on a sequence.
IncludesItem(items, item) == \E p \in DOMAIN items : items[p] = item

RECURSIVE FilterByIndex(_, _)
\* row.filter((_, i) => indices.includes(i)).
FilterByIndex(row, indices) ==
  IF row = <<>> THEN <<>>
  ELSE LET n == Len(row)
           front == FilterByIndex(SubSeq(row, 1, n - 1), indices)
       IN IF IncludesItem(indices, n - 1) THEN Append(front, row[n]) ELSE front

\* next(): the table after the call and the iterator result.
next(t) ==
  LET index == t.iteratorIndex + 1
  IN [table |-> [t EXCEPT !.iteratorIndex = index],
      value |-> IF index < Len(t.rows) THEN t.rows[index + 1] ELSE JNull,
      done |-> ~(index < Len(t.rows))]

RECURSIVE ForOf(_, _)
\* `for (const row of t)`: [Symbol.iterator]() hands back the table itself,
\* and next() is called until it reports done.  The rows met, after those
\* in met, and the table afterwards.
ForOf(t, met) ==
  LET step == next(t)
  IN IF step.done THEN [table |-> step.table, rows |-> met]
     ELSE ForOf(step.table, Append(met, step.value))

\* this.union(table) for two distinct tables: the table returned (or null)
\* and both tables afterwards.
union(this, table) ==
  LET unionColumns == SelectSeq(this.columns,
                        LAMBDA col : IncludesItem(table.columns, col))
      thisColumnIndices ==
        [p \in DOMAIN unionColumns |-> getColumnIndexByName(this, unionColumns[p])]
      otherColumnIndices ==
        [p \in DOMAIN unionColumns |-> getColumnIndexByName(table, unionColumns[p])]
      thisLoop == ForOf(this, <<>>)
      otherLoop == ForOf(table, <<>>)
      unionRows ==
        [p \in DOMAIN thisLoop.rows |->
           FilterByIndex(thisLoop.rows[p], thisColumnIndices)]
          \o [p \in DOMAIN otherLoop.rows |->
                FilterByIndex(otherLoop.rows[p], otherColumnIndices)]
  IN IF Len(unionColumns) = 0
     THEN [value |-> JNull, this |-> this, table |-> table]
     ELSE [value |-> Table2d(unionColumns, unionRows),
           this |-> thisLoop.table, table |-> otherLoop.table]

RECURSIVE JoinedColumns(_, _)
\* The loop of lines 503-509 over the columns of table2 that are left: a
\* label met before is pushed as `${this.table2} - ${col}`, and the
\* conversion of a Table2d to a string is '[object Object]'.
JoinedColumns(joinedColumns, columns) ==
  IF columns = <<>> THEN joinedColumns
  ELSE LET col == Head(columns)
       IN IF ~IncludesItem(joinedColumns, col)
          THEN JoinedColumns(Append(joinedColumns, col), Tail(columns))
          ELSE JoinedColumns(Append(joinedColumns, "[object Object] - " \o col),
                             Tail(columns))

\* The pairs <<i, j>> the two loops of lines 512-520 visit, in order.
LoopPairs(t1, t2) ==
  [k \in 1..(length(t1) * length(t2)) |->
     <<(k - 1) \div length(t2), (k - 1) % length(t2)>>]

\* Table2dJoin.on for the join of t1 and t2.
on(t1, t2, table1Column, table2Column) ==
  LET matching ==
        SelectSeq(LoopPairs(t1, t2),
          LAMBDA pair :
            /\ get(t1, pair[1], table1Column) = get(t2, pair[2], table2Column)
            /\ get(t1, pair[1], table1Column) # JNull)
  IN Table2d(JoinedColumns(t1.columns, t2.columns),
       [k \in DOMAIN matching |->
          AtOrEmpty(t1, matching[k][1]) \o AtOrEmpty(t2, matching[k][1])])

\* Not-a-number.
NaN == [k |-> "NaN"]

\* parseFloat(val ?? "0") for a cell that is null or a number; any other
\* cell is taken not to start with a number.
ParseFloat(val) ==
  CASE val.k = "null" -> JNum(0)
    [] val.k = "number" -> val
    [] OTHER -> NaN

\* `val += 1` as JavaScript evaluates it for a cell.
PlusOne(val) ==
  CASE val.k = "number" -> JNum(val.n + 1)
    [] val.k = "null" -> JNum(1)
    [] val.k = "string" -> JStr(val.s \o "1")
    [] OTHER -> NaN

\* The indices of the named columns that exist.
ExistingIndices(t, columns) ==
  SelectSeq([p \in DOMAIN columns |-> getColumnIndexByName(t, columns[p])],
            LAMBDA col : col # NoColumn)

\* The key of a row in hashedRows.
GroupHash(row, groupColumnIndices) ==
  JoinWith([p \in DOMAIN groupColumnIndices |->
              JsonStringifyPrimitive(row[groupColumnIndices[p] + 1])], ",")

\* The row first stored for a group: sum columns parsed, the rest as it is.
FirstOfGroup(currentRow, columnIndicesToSum) ==
  [p \in DOMAIN currentRow |->
     IF IncludesItem(columnIndicesToSum, p - 1)
     THEN IF ParseFloat(currentRow[p]) = NaN THEN JNum(0)
          ELSE ParseFloat(currentRow[p])
     ELSE currentRow[p]]

\* The stored row of a group after a further row of the group; no column is
\* both summed and counted.
Accumulated(hashedRow, currentRow, columnIndicesToSum, columnIndicesToCount) ==
  [p \in DOMAIN hashedRow |->
     IF IncludesItem(columnIndicesToSum, p - 1)
     THEN IF ParseFloat(currentRow[p]) = NaN THEN hashedRow[p]
          ELSE JNum(hashedRow[p].n + ParseFloat(currentRow[p]).n)
     ELSE IF IncludesItem(columnIndicesToCount, p - 1) THEN PlusOne(hashedRow[p])
     ELSE hashedRow[p]]

RECURSIVE HashedRows(_, _, _, _, _)
\* hashedRows, in insertion order, after the loop of lines 347-374 over the
\* first n rows.
HashedRows(t, n, groupColumnIndices, columnIndicesToSum, columnIndicesToCount) ==
  IF n = 0 THEN <<>>
  ELSE LET before == HashedRows(t, n - 1, groupColumnIndices,
                                columnIndicesToSum, columnIndicesToCount)
           currentRow == t.rows[n]
           groupHash == GroupHash(currentRow, groupColumnIndices)
           stored == {k \in DOMAIN before : before[k].hash = groupHash}
       IN IF stored # {}
          THEN [k \in DOMAIN before |->
                  IF k \in stored
                  THEN [hash |-> groupHash,
                        row |-> Accumulated(before[k].row, currentRow,
                                  columnIndicesToSum, columnIndicesToCount)]
                  ELSE before[k]]
          ELSE Append(before,
                 [hash |-> groupHash,
                  row |-> FirstOfGroup(currentRow, columnIndicesToSum)])

\* summarize.
summarize(t, groupColumns, sumColumns, countColumns) ==
  LET groupColumnIndices == ExistingIndices(t, groupColumns)
      columnIndicesToSum == ExistingIndices(t, sumColumns)
      columnIndicesToCount == ExistingIndices(t, countColumns)
      hashedRows == HashedRows(t, length(t), groupColumnIndices,
                      columnIndicesToSum, columnIndicesToCount)
      allSummaryIndices ==
        [p \in DOMAIN groupColumns |-> getColumnIndexByName(t, groupColumns[p])]
          \o columnIndicesToSum \o columnIndicesToCount
  IN Table2d(groupColumns \o sumColumns \o countColumns,
       [k \in DOMAIN hashedRows |->
          FilterByIndex(hashedRows[k].row, allSummaryIndices)])

\* The tables and the call while no table method is modelled.
IdleTables ==
  /\ table1 = Table2d(<<>>, <<>>)
  /\ table2 = Table2d(<<>>, <<>>)
  /\ call = [op |-> "none"]

(***************************************************************************)
(* jsonType.  The result is a JSON type name, or the name of the exception *)
(* the call throws.                                                        *)
(***************************************************************************)
ThrownNames == {TypeError, UnreachableReached}

jsonType(val) ==
  IF TypeOf(val) \in {"string", "number", "boolean"} THEN TypeOf(val)
  ELSE IF val = JNull THEN "null"
  ELSE IF LengthOf(val) # JUndefined THEN "array"
  ELSE IF ConstructorOf(val).k \in {"null", "undefined"} THEN TypeError
  ELSE IF NameOf(ConstructorOf(val)) = JStr("Object") THEN "object"
  ELSE UnreachableReached

(***************************************************************************)
(* Schema nodes are records with a field type and, depending on the        *)
(* variant, param, required, arrayType, tupleType, properties, values,     *)
(* overloads.  A field the schema object does not have is absent from the  *)
(* record.                                                                 *)
(***************************************************************************)
\* ParamOrRoot as it would be if an unnamed node were given an empty name.
ParamOrRoot_EmptyName(s) == IF "param" \in DOMAIN s THEN s.param ELSE ""

\* `schema.param ?? "[root or array member]"`
ParamOrRoot(s) == IF "param" \in DOMAIN s THEN s.param ELSE RootName

\* Truthiness of `schema.required`.
IsRequired(s) == "required" \in DOMAIN s /\ s.required

\* `values?.includes(paramValue)`: SameValueZero, so only a primitive can be
\* found among the primitives of the list.
Includes(values, val) ==
  IsPrimitiveValue(val) /\ \E i \in DOMAIN values : values[i] = val

\* The expected-type text of one alternative of an overloaded schema.
OverloadText(overload) ==
  overload.type
    \o (IF "tupleType" \in DOMAIN overload
        THEN " (" \o JoinWith([i \in DOMAIN overload.tupleType |->
                                 overload.tupleType[i].type], ", ") \o ")"
        ELSE "")
    \o (IF "arrayType" \in DOMAIN overload
        THEN " (" \o overload.arrayType.type \o ")"
        ELSE "")

\* The expected-type text of an overloaded schema.
OverloadsText(overloads) ==
  JoinWith([i \in DOMAIN overloads |-> OverloadText(overloads[i])], " | ")

\* The error names an alternative of an overloaded schema is counted out by.
CountedErrorNames == {IncorrectValueName, IncorrectTypeName}

IsCountedError(r) == r.kind = "error" /\ r.name \in CountedErrorNames

\* IsWrongType as it would be if a null value passed every exact type.
IsWrongType_NullAccepted(paramType, s) ==
  LET isInvalidType ==
        s.type # "primitive" /\ s.type # "tuple" /\ paramType # s.type
          /\ paramType # "null"
      isInvalidPrimitive ==
        s.type = "primitive" /\ paramType \notin {"string", "number", "boolean", "null"}
      isInvalidTuple == s.type = "tuple" /\ paramType # "array"
  IN s.type # "values" /\ (isInvalidType \/ isInvalidPrimitive \/ isInvalidTuple)

\* The type test of a schema that is not overloaded.
IsWrongType(paramType, s) ==
  LET isInvalidType == s.type # "primitive" /\ s.type # "tuple" /\ paramType # s.type
      isInvalidPrimitive ==
        s.type = "primitive" /\ paramType \notin {"string", "number", "boolean", "null"}
      isInvalidTuple == s.type = "tuple" /\ paramType # "array"
  IN s.type # "values" /\ (isInvalidType \/ isInvalidPrimitive \/ isInvalidTuple)

RECURSIVE validateRequestParam(_, _)
RECURSIVE validateRequestParamType(_, _)
RECURSIVE validateTuple(_, _, _)
RECURSIVE validateArray(_, _, _)
RECURSIVE validateEntries(_, _, _)

\* What the alternatives of an overloaded schema produce, in order.
OverloadResults(val, s) ==
  [i \in DOMAIN s.overloads |-> validateRequestParam(val, s.overloads[i])]

\* The overloaded branch of validateRequestParamType; paramType did not throw.
validateOverloaded(val, s, paramType) ==
  LET results == OverloadResults(val, s)
      throwing == {i \in DOMAIN results : results[i].kind = "throw"}
      validationErrors == {i \in DOMAIN results : IsCountedError(results[i])}
  IN IF throwing # {}
     THEN results[CHOOSE i \in throwing : \A j \in throwing : i <= j]
     ELSE IF Cardinality(validationErrors) = Len(s.overloads)
     THEN wrongParamType(ParamOrRoot(s), paramType, OverloadsText(s.overloads))
     ELSE Valid

validateRequestParamType(val, s) ==
  LET paramType == jsonType(val)
  IN IF paramType \in ThrownNames THEN Thrown(paramType)
     ELSE IF s.type = "overloaded" THEN validateOverloaded(val, s, paramType)
     ELSE IF IsWrongType(paramType, s)
     THEN wrongParamType(ParamOrRoot(s), paramType, s.type)
     ELSE Valid

\* validateMissing as it would be if a node without a required flag counted
\* as required.
validateMissing_UnflaggedRequired(s) ==
  IF "required" \notin DOMAIN s \/ s.required
  THEN missingRequiredParam(ParamOrRoot(s)) ELSE Valid

\* The check of an undefined paramValue.
validateMissing(s) ==
  IF IsRequired(s) THEN missingRequiredParam(ParamOrRoot(s)) ELSE Valid

\* isInvalidValue
IsInvalidValue(val, s) ==
  s.type = "values" /\ ~("values" \in DOMAIN s /\ Includes(s.values, val))

\* validateTuple as it would be if an element beyond the declared positions
\* were rejected.
validateTuple_RejectingExtra(val, s, index) ==
  IF index >= Len(s.tupleType)
  THEN IF ElementAt(val, index) = JUndefined THEN Valid
       ELSE wrongParamName(ToString(index))
  ELSE LET tupleValueAtIndex == ElementAt(val, index)
       IN IF tupleValueAtIndex = JUndefined
          THEN missingRequiredParam(
                 ParamOrRoot(s) \o " tuple, index " \o ToString(index))
          ELSE LET validationError ==
                     validateRequestParam(tupleValueAtIndex, s.tupleType[index + 1])
               IN IF validationError # Valid THEN validationError
                  ELSE validateTuple(val, s, index + 1)

\* validateTuple as it would be if it reported the missing position 1-based.
validateTuple_OneBasedIndex(val, s, index) ==
  IF index >= Len(s.tupleType) THEN Valid
  ELSE LET tupleValueAtIndex == ElementAt(val, index)
       IN IF tupleValueAtIndex = JUndefined
          THEN missingRequiredParam(
                 ParamOrRoot(s) \o " tuple, index " \o ToString(index + 1))
          ELSE LET validationError ==
                     validateRequestParam(tupleValueAtIndex, s.tupleType[index + 1])
               IN IF validationError # Valid THEN validationError
                  ELSE validateTuple(val, s, index + 1)

\* The tuple loop from position index (0-based) on.
validateTuple(val, s, index) ==
  IF index >= Len(s.tupleType) THEN Valid
  ELSE LET tupleValueAtIndex == ElementAt(val, index)
       IN IF tupleValueAtIndex = JUndefined
          THEN missingRequiredParam(
                 ParamOrRoot(s) \o " tuple, index " \o ToString(index))
          ELSE LET validationError ==
                     validateRequestParam(tupleValueAtIndex, s.tupleType[index + 1])
               IN IF validationError # Valid THEN validationError
                  ELSE validateTuple(val, s, index + 1)

\* validateArray as it would be if the loop went on after a failing element
\* and the last error won.
validateArray_KeepingLastError(val, s, i) ==
  IF val.k # "array" THEN Thrown(TypeError)
  ELSE IF i > Len(val.items) THEN Valid
  ELSE IF "arrayType" \notin DOMAIN s THEN Thrown(TypeError)
  ELSE LET validationError == validateRequestParam(val.items[i], s.arrayType)
           later == validateArray(val, s, i + 1)
       IN IF later # Valid THEN later ELSE validationError

\* The array loop from element i (1-based) on; a value that is not an array
\* is not iterable.
validateArray(val, s, i) ==
  IF val.k # "array" THEN Thrown(TypeError)
  ELSE IF i > Len(val.items) THEN Valid
  ELSE IF "arrayType" \notin DOMAIN s THEN Thrown(TypeError)
  ELSE LET validationError == validateRequestParam(val.items[i], s.arrayType)
       IN IF validationError # Valid THEN validationError
          ELSE validateArray(val, s, i + 1)

\* FirstMissingRequired as it would be if the required flag were not read.
FirstMissingRequired_IgnoringRequired(val, s) ==
  LET missing == {i \in DOMAIN s.properties : ~HasProperty(val, s.properties[i].param)}
  IN IF missing = {} THEN 0 ELSE CHOOSE i \in missing : \A j \in missing : i <= j

\* The first declared property that is required and not `in` the value, or 0.
FirstMissingRequired(val, s) ==
  LET missing == {i \in DOMAIN s.properties :
                    /\ ~HasProperty(val, s.properties[i].param)
                    /\ IsRequired(s.properties[i])}
  IN IF missing = {} THEN 0 ELSE CHOOSE i \in missing : \A j \in missing : i <= j

\* properties.find(prop => prop.param === nestedParam): its index, or 0.
FindProperty(s, nestedParam) ==
  LET found == {i \in DOMAIN s.properties :
                  "param" \in DOMAIN s.properties[i]
                    /\ s.properties[i].param = nestedParam}
  IN IF found = {} THEN 0 ELSE CHOOSE i \in found : \A j \in found : i <= j

\* validateEntries as it would be if an undeclared key were skipped.
validateEntries_SkippingUndeclared(val, s, i) ==
  IF i > Len(val.entries) THEN Valid
  ELSE LET nestedParam == val.entries[i].key
           found == FindProperty(s, nestedParam)
       IN IF found = 0 THEN validateEntries(val, s, i + 1)
          ELSE LET validationError ==
                     validateRequestParam(val.entries[i].val, s.properties[found])
               IN IF validationError # Valid THEN validationError
                  ELSE validateEntries(val, s, i + 1)

\* The loop over the value's own entries from entry i (1-based) on.
validateEntries(val, s, i) ==
  IF i > Len(val.entries) THEN Valid
  ELSE LET nestedParam == val.entries[i].key
           found == FindProperty(s, nestedParam)
       IN IF found = 0 THEN wrongParamName(nestedParam)
          ELSE LET validationError ==
                     validateRequestParam(val.entries[i].val, s.properties[found])
               IN IF validationError # Valid THEN validationError
                  ELSE validateEntries(val, s, i + 1)

\* The object branch: the pass over the declared properties, then the pass
\* over the value's entries.  A schema without properties is not iterable.
validateObject(val, s) ==
  IF "properties" \notin DOMAIN s THEN Thrown(TypeError)
  ELSE IF FirstMissingRequired(val, s) # 0
  THEN missingRequiredParam(s.properties[FirstMissingRequired(val, s)].param)
  ELSE validateEntries(val, s, 1)

\* The structural recursion that follows the value and type checks.
validateStructure(val, s) ==
  LET paramType == jsonType(val)
  IN IF paramType \in ThrownNames THEN Thrown(paramType)
     ELSE IF s.type = "tuple" THEN validateTuple(val, s, 0)
     ELSE IF paramType = "array" /\ s.type # "overloaded" THEN validateArray(val, s, 1)
     ELSE IF paramType = "object" THEN validateObject(val, s)
     ELSE Valid

\* validateRequestParam as it would be if a null value counted as omitted.
validateRequestParam_NullAsOmitted(val, s) ==
  IF val = JUndefined \/ val = JNull THEN validateMissing(s)
  ELSE IF IsInvalidValue(val, s) THEN wrongParamValue(ParamOrRoot(s), val, s.values)
  ELSE LET wrongType == validateRequestParamType(val, s)
       IN IF wrongType # Valid THEN wrongType
          ELSE validateStructure(val, s)

validateRequestParam(val, s) ==
  IF val = JUndefined THEN validateMissing(s)
  ELSE IF IsInvalidValue(val, s) THEN wrongParamValue(ParamOrRoot(s), val, s.values)
  ELSE LET wrongType == validateRequestParamType(val, s)
       IN IF wrongType # Valid THEN wrongType
          ELSE validateStructure(val, s)

(***************************************************************************)
(* The validateRequestParam of restlet.ts: the variant without enumerated  *)
(* and overloaded schemas.  Its error constructors and its jsonType are    *)
(* the same text as the extended variant's.                                *)
(***************************************************************************)
\* restletTs_IsWrongType as it would be if a tuple schema were not tested.
restletTs_IsWrongType_TupleUnchecked(paramType, s) ==
  LET isInvalidType == s.type # "primitive" /\ s.type # "tuple" /\ paramType # s.type
      isInvalidPrimitive ==
        s.type = "primitive" /\ paramType \notin {"string", "number", "boolean", "null"}
  IN isInvalidType \/ isInvalidPrimitive

\* The inline type test.
restletTs_IsWrongType(paramType, s) ==
  LET isInvalidType == s.type # "primitive" /\ s.type # "tuple" /\ paramType # s.type
      isInvalidPrimitive ==
        s.type = "primitive" /\ paramType \notin {"string", "number", "boolean", "null"}
      isInvalidTuple == s.type = "tuple" /\ paramType # "array"
  IN isInvalidType \/ isInvalidPrimitive \/ isInvalidTuple

RECURSIVE restletTs_validateRequestParam(_, _)
RECURSIVE restletTs_validateTuple(_, _, _)
RECURSIVE restletTs_validateArray(_, _, _)
RECURSIVE restletTs_validateEntries(_, _, _)

restletTs_validateTuple(val, s, index) ==
  IF index >= Len(s.tupleType) THEN Valid
  ELSE LET tupleValueAtIndex == ElementAt(val, index)
       IN IF tupleValueAtIndex = JUndefined
          THEN missingRequiredParam(
                 ParamOrRoot(s) \o " tuple, index " \o ToString(index))
          ELSE LET validationError ==
                     restletTs_validateRequestParam(tupleValueAtIndex,
                                                    s.tupleType[index + 1])
               IN IF validationError # Valid THEN validationError
                  ELSE restletTs_validateTuple(val, s, index + 1)

restletTs_validateArray(val, s, i) ==
  IF val.k # "array" THEN Thrown(TypeError)
  ELSE IF i > Len(val.items) THEN Valid
  ELSE IF "arrayType" \notin DOMAIN s THEN Thrown(TypeError)
  ELSE LET validationError == restletTs_validateRequestParam(val.items[i], s.arrayType)
       IN IF validationError # Valid THEN validationError
          ELSE restletTs_validateArray(val, s, i + 1)

restletTs_validateEntries(val, s, i) ==
  IF i > Len(val.entries) THEN Valid
  ELSE LET nestedParam == val.entries[i].key
           found == FindProperty(s, nestedParam)
       IN IF found = 0 THEN wrongParamName(nestedParam)
          ELSE LET validationError ==
                     restletTs_validateRequestParam(val.entries[i].val,
                                                    s.properties[found])
               IN IF validationError # Valid THEN validationError
                  ELSE restletTs_validateEntries(val, s, i + 1)

restletTs_validateObject(val, s) ==
  IF "properties" \notin DOMAIN s THEN Thrown(TypeError)
  ELSE IF FirstMissingRequired(val, s) # 0
  THEN missingRequiredParam(s.properties[FirstMissingRequired(val, s)].param)
  ELSE restletTs_validateEntries(val, s, 1)

restletTs_validateRequestParam(val, s) ==
  IF val = JUndefined THEN validateMissing(s)
  ELSE LET paramType == jsonType(val)
       IN IF paramType \in ThrownNames THEN Thrown(paramType)
          ELSE IF restletTs_IsWrongType(paramType, s)
          THEN wrongParamType(ParamOrRoot(s), paramType, s.type)
          ELSE IF s.type = "tuple" THEN restletTs_validateTuple(val, s, 0)
          ELSE IF paramType = "array" THEN restletTs_validateArray(val, s, 1)
          ELSE IF paramType = "object" THEN restletTs_validateObject(val, s)
          ELSE Valid

RECURSIVE IsRestletTsSchema(_)
\* The schemas restlet.ts declares: no 'values' and no 'overloaded' node.
IsRestletTsSchema(s) ==
  /\ s.type \notin {"values", "overloaded"}
  /\ "arrayType" \in DOMAIN s => IsRestletTsSchema(s.arrayType)
  /\ "tupleType" \in DOMAIN s
       => \A i \in DOMAIN s.tupleType : IsRestletTsSchema(s.tupleType[i])
  /\ "properties" \in DOMAIN s
       => \A i \in DOMAIN s.properties : IsRestletTsSchema(s.properties[i])

(***************************************************************************)
(* The inputs: bounded sets of JSON values and of well-formed schemas.     *)
(***************************************************************************)
MaxArrayLen == 2

MaxKeys == 2

MaxTupleLen == 2

MaxProperties == 2

MaxOverloads == 2

SeqsUpTo(S, n) == UNION {[1..m -> S] : m \in 0..n}

PrimitiveValues == {JStr("a"), JStr("1"), JNum(1), JBool(TRUE), JNull}

ElementValues == {JStr("a"), JNum(1), JNull}

ArrayValues == {JArr(items) : items \in SeqsUpTo(ElementValues, MaxArrayLen)}

\* Keys a JSON object may carry; three of them are also names JavaScript
\* gives a meaning to.
ValueKeys == {"a", "b", "length", "constructor", "toString"}

EntryValues == {JStr("a"), JNum(1)}

HasDistinctKeys(entries) ==
  \A i, j \in DOMAIN entries : entries[i].key = entries[j].key => i = j

ObjectValues ==
  {JObj(entries) :
     entries \in {e \in SeqsUpTo({Entry(key, val) : key \in ValueKeys, val \in EntryValues},
                                 MaxKeys) : HasDistinctKeys(e)}}

\* Objects whose own 'constructor' is null, or looks like the Object function.
ConstructorValues ==
  {JObj(<<Entry("constructor", JNull)>>),
   JObj(<<Entry("constructor", JObj(<<Entry("name", JStr("Object"))>>))>>)}

NestedMembers ==
  {JArr(<<>>), JArr(<<JNum(1)>>), JArr(<<JStr("a")>>), JArr(<<JStr("a"), JNum(1)>>),
   JObj(<<>>), JObj(<<Entry("b", JNum(1))>>), JObj(<<Entry("b", JStr("a"))>>),
   JObj(<<Entry("b", JNum(1)), Entry("c", JNum(1))>>)}

NestedArrayValues ==
  {JArr(items) : items \in SeqsUpTo(NestedMembers, MaxArrayLen) \ {<<>>}}

NestedObjectValues ==
  {JObj(<<Entry("a", m)>>) : m \in NestedMembers}
    \cup {JObj(<<Entry("a", m), Entry("b", v)>>) : m \in NestedMembers, v \in EntryValues}
    \cup {JObj(<<Entry("b", v), Entry("a", m)>>) : m \in NestedMembers, v \in EntryValues}

\* Arrays with one element that is an object carrying a special key.
SpecialArrayValues ==
  {JArr(<<m>>) :
     m \in ConstructorValues
             \cup {JObj(<<Entry(key, JNum(1))>>) : key \in {"length", "toString"}}}

AllValues ==
  {JUndefined} \cup PrimitiveValues \cup ArrayValues \cup ObjectValues
    \cup ConstructorValues \cup NestedArrayValues \cup NestedObjectValues
    \cup SpecialArrayValues

\* Schema constructors.
Leaf(type) == [type |-> type]

ValuesOf(values) == [type |-> "values", values |-> values]

ArrayOf(arrayType) == [type |-> "array", arrayType |-> arrayType]

TupleOf(tupleType) == [type |-> "tuple", tupleType |-> tupleType]

ObjectOf(properties) == [type |-> "object", properties |-> properties]

OverloadedOf(overloads) == [type |-> "overloaded", overloads |-> overloads]

Named(s, param, required) == s @@ [param |-> param, required |-> required]

LeafTypes == {"string", "number", "boolean", "null", "primitive"}

EnumLists == {<<JStr("a"), JNum(1)>>, <<JBool(TRUE), JNull>>}

LeafSchemas == {Leaf(t) : t \in LeafTypes} \cup {ValuesOf(l) : l \in EnumLists}

ParamNames == {"a", "b", "constructor"}

WithNames(S) == S \cup {Named(s, p, r) : s \in S, p \in {"a"}, r \in BOOLEAN}

HasDistinctParams(properties) ==
  \A i, j \in DOMAIN properties : properties[i].param = properties[j].param => i = j

\* Tuple schemas over leaf positions.
PositionSchemas == {Leaf("string"), Leaf("number"), ValuesOf(<<JStr("a"), JNum(1)>>)}

TupleSchemas == {TupleOf(tt) : tt \in SeqsUpTo(PositionSchemas, MaxTupleLen)}

\* Object schemas over leaf properties.
\* A property that carries no required flag at all.
Unflagged(s, param) == s @@ [param |-> param]

PropertySchemas ==
  {Named(s, p, r) : s \in {Leaf("string"), Leaf("number")}, p \in ParamNames, r \in BOOLEAN}
    \cup {Unflagged(Leaf("string"), p) : p \in ParamNames}

ObjectSchemas ==
  {ObjectOf(ps) : ps \in {q \in SeqsUpTo(PropertySchemas, MaxProperties) :
                            HasDistinctParams(q)}}

\* Overloaded schemas.
AlternativeSchemas ==
  {Leaf("string"), Leaf("number"), ValuesOf(<<JStr("a"), JNum(1)>>),
   ArrayOf(Leaf("string")), TupleOf(<<Leaf("string")>>),
   TupleOf(<<Leaf("string"), Leaf("number")>>),
   ObjectOf(<<>>), ObjectOf(<<Named(Leaf("string"), "a", TRUE)>>)}

OverloadedSchemas ==
  {OverloadedOf(os) : os \in SeqsUpTo(AlternativeSchemas, MaxOverloads) \ {<<>>}}

\* Properties that are themselves composite.
CompositeSchemas ==
  {ArrayOf(Leaf("string")), ArrayOf(TupleOf(<<Leaf("number")>>)),
   ArrayOf(ObjectOf(<<Named(Leaf("number"), "b", TRUE)>>)),
   TupleOf(<<Leaf("string"), Leaf("number")>>),
   ObjectOf(<<Named(Leaf("number"), "b", TRUE)>>),
   ObjectOf(<<Named(Leaf("number"), "b", FALSE)>>),
   ValuesOf(<<JStr("a"), JNum(1)>>),
   OverloadedOf(<<Leaf("string"), ArrayOf(Leaf("number"))>>)}

NestedObjectSchemas ==
  {ObjectOf(<<Named(c, "a", r)>>) : c \in CompositeSchemas, r \in BOOLEAN}
    \cup {ObjectOf(<<Named(c, "a", r), Named(Leaf("string"), "b", r2)>>) :
            c \in CompositeSchemas, r \in BOOLEAN, r2 \in BOOLEAN}

BasicSchemas ==
  LeafSchemas \cup CompositeSchemas
    \cup {TupleOf(<<>>), ObjectOf(<<>>), ArrayOf(Leaf("primitive"))}

\* The families of (schema, value) pairs a call is drawn from.
OverloadedInputs ==
  WithNames(OverloadedSchemas)
    \X (PrimitiveValues \cup ArrayValues \cup NestedMembers \cup ConstructorValues
          \cup {JObj(<<Entry("a", JStr("a"))>>), JObj(<<Entry("length", JNum(1))>>)})

ObjectInputs ==
  (ObjectSchemas \X (ObjectValues \cup ConstructorValues))
    \cup (NestedObjectSchemas \X (NestedObjectValues \cup ObjectValues))

TupleInputs ==
  WithNames(TupleSchemas) \X (ArrayValues \cup NestedArrayValues \cup SpecialArrayValues)

BasicInputs == WithNames(BasicSchemas) \X AllValues

\* Objects whose property 'a' is null, against schemas declaring 'a'.
NullableSchemas ==
  LeafSchemas
    \cup {ArrayOf(Leaf("string")), TupleOf(<<Leaf("string")>>), ObjectOf(<<>>),
          OverloadedOf(<<Leaf("string"), Leaf("number")>>),
          OverloadedOf(<<Leaf("string"), Leaf("null")>>),
          OverloadedOf(<<Leaf("primitive")>>),
          OverloadedOf(<<Leaf("string"), ValuesOf(<<JBool(TRUE), JNull>>)>>),
          OverloadedOf(<<ArrayOf(Leaf("string")), ValuesOf(<<JStr("a"), JNum(1)>>)>>)}

NullPropertySchemas ==
  {ObjectOf(<<Named(c, "a", r)>>) : c \in NullableSchemas, r \in BOOLEAN}
    \cup {ObjectOf(<<Named(Leaf("string"), "b", FALSE), Named(c, "a", FALSE)>>) :
            c \in NullableSchemas}

NullPropertyValues ==
  {JObj(<<>>), JObj(<<Entry("a", JNull)>>),
   JObj(<<Entry("a", JNull), Entry("b", JStr("a"))>>),
   JObj(<<Entry("b", JStr("a")), Entry("a", JNull)>>),
   JObj(<<Entry("b", JNum(1)), Entry("a", JNull)>>)}

NullPropertyInputs == NullPropertySchemas \X NullPropertyValues

(***************************************************************************)
(* The state machine: one call of validateRequestParam.                    *)
(***************************************************************************)
NotCalled == [kind |-> "none"]

Start(inputs) ==
  /\ \E in \in inputs : schema = in[1] /\ paramValue = in[2]
  /\ result = NotCalled
  /\ pc = "call"
  /\ slug = ""
  /\ IdleResponse
  /\ IdleTables

\* Keys of a JSON object that JavaScript gives a meaning to.
SpecialKeys == {"length", "constructor", "toString"}

RECURSIVE IsPlainValue(_)
\* A value none of whose objects carries a special key.
IsPlainValue(val) ==
  CASE val.k = "object" ->
         /\ OwnKeys(val) \cap SpecialKeys = {}
         /\ \A i \in DOMAIN val.entries : IsPlainValue(val.entries[i].val)
    [] val.k = "array" -> \A i \in DOMAIN val.items : IsPlainValue(val.items[i])
    [] OTHER -> TRUE

Plain(inputs) == {in \in inputs : IsPlainValue(in[2])}

Special(inputs) == {in \in inputs : ~IsPlainValue(in[2])}

Init ==
  \/ Start(Plain(OverloadedInputs))
  \/ Start(Plain(ObjectInputs))
  \/ Start(Plain(TupleInputs))
  \/ Start(Plain(BasicInputs))
  \/ Start(NullPropertyInputs)
  \/ Start(Special(OverloadedInputs \cup ObjectInputs \cup TupleInputs \cup BasicInputs))

\* Validate as it would be if the call consumed its input value.
Validate_ConsumingValue ==
  /\ pc = "call"
  /\ result' = validateRequestParam(paramValue, schema)
  /\ pc' = "done"
  /\ paramValue' = JUndefined
  /\ UNCHANGED <<schema, slug, errorArg, statusArg,
               table1, table2, call>>

Validate ==
  /\ pc = "call"
  /\ result' = validateRequestParam(paramValue, schema)
  /\ pc' = "done"
  /\ UNCHANGED <<schema, paramValue, slug, errorArg, statusArg,
               table1, table2, call>>

\* One call of the validateRequestParam of restlet.ts.
ValidateRestletTs ==
  /\ pc = "call"
  /\ IsRestletTsSchema(schema)
  /\ result' = restletTs_validateRequestParam(paramValue, schema)
  /\ pc' = "doneRestletTs"
  /\ UNCHANGED <<schema, paramValue, slug, errorArg, statusArg,
               table1, table2, call>>

Next == Validate \/ ValidateRestletTs

Spec == Init /\ [][Next]_vars

TypeOK ==
  /\ pc \in {"call", "done", "doneRestletTs"}
  /\ result.kind \in {"none", "null", "error", "throw", "return"}
  /\ pc = "call" <=> result = NotCalled

(***************************************************************************)
(* Custom ids (common.ts).  A slug is a string; a call returns the id or   *)
(* throws the error made by error.create.                                  *)
(***************************************************************************)
Returned(value) == [kind |-> "return", value |-> value]

\* throwError.wrongType for an invalid value that is a string.
wrongType(invalidValueName, invalidValue, message) ==
  Thrown("NG_TYPE_ERROR")
    @@ [message |-> "The value " \o invalidValue \o " provided to "
                      \o invalidValueName \o " is invalid: " \o message]

LowercaseLetters ==
  {"a", "b", "c", "d", "e", "f", "g", "h", "i", "j", "k", "l", "m", "n", "o", "p",
   "q", "r", "s", "t", "u", "v", "w", "x", "y", "z"}

\* The positions of the characters the pattern [^a-z_] matches.
InvalidCharacters(str) ==
  {i \in 1..Len(str) : SubSeq(str, i, i) \notin LowercaseLetters \cup {"_"}}

\* validateNsIdSlug as it would be if only the first character were tested.
validateNsIdSlug_FirstCharacterOnly(str) ==
  IF 1 \in InvalidCharacters(str)
  THEN wrongType("slug", str,
         "A custom form element ID can only consist of lowercase letters and underscores.")
  ELSE Returned(str)

validateNsIdSlug(str) ==
  IF InvalidCharacters(str) # {}
  THEN wrongType("slug", str,
         "A custom form element ID can only consist of lowercase letters and underscores.")
  ELSE Returned(str)

fieldId(str) ==
  LET validated == validateNsIdSlug(str)
  IN IF validated.kind = "throw" THEN validated
     ELSE Returned("custpage_fld_" \o validated.value)

MaxSlugLen == 3

SlugCharacters == {"a", "z", "_", "A", "1", " ", "-"}

RECURSIVE SlugsOfLen(_)
SlugsOfLen(n) ==
  IF n = 0 THEN {""}
  ELSE {s \o c : s \in SlugsOfLen(n - 1), c \in SlugCharacters}

Slugs == UNION {SlugsOfLen(n) : n \in 0..MaxSlugLen}

InitIds ==
  /\ slug \in Slugs
  /\ IdleResponse
  /\ IdleTables
  /\ schema = Leaf("null")
  /\ paramValue = JUndefined
  /\ result = NotCalled
  /\ pc = "call"

FieldId ==
  /\ pc = "call"
  /\ result' = fieldId(slug)
  /\ pc' = "done"
  /\ UNCHANGED <<schema, paramValue, slug, errorArg, statusArg,
               table1, table2, call>>

NextIds == FieldId

SpecIds == InitIds /\ [][NextIds]_vars

(***************************************************************************)
(* asResponse: the errors and statuses a call is drawn from.               *)
(***************************************************************************)
ComponentValues == {JStr("E"), JStr(""), JNum(1), JNull}

ErrorObjects ==
  {JObj(<<>>)}
    \cup {JObj(<<Entry("name", n)>>) : n \in ComponentValues}
    \cup {JObj(<<Entry("message", m)>>) : m \in ComponentValues}
    \cup {JObj(<<Entry("name", n), Entry("message", m)>>) :
            n \in ComponentValues, m \in ComponentValues}

ErrorValues == {JUndefined, JNull, JStr("E")} \cup ErrorObjects

StatusValues == {JUndefined, JNum(0), JNum(400), JNum(500)}

InitResponse ==
  /\ errorArg \in ErrorValues
  /\ statusArg \in StatusValues
  /\ IdleTables
  /\ schema = Leaf("null")
  /\ paramValue = JUndefined
  /\ slug = ""
  /\ result = NotCalled
  /\ pc = "call"

AsResponse ==
  /\ pc = "call"
  /\ result' = asResponse(errorArg, statusArg)
  /\ pc' = "done"
  /\ UNCHANGED <<schema, paramValue, slug, errorArg, statusArg,
               table1, table2, call>>

NextResponse == AsResponse

SpecResponse == InitResponse /\ [][NextResponse]_vars

(***************************************************************************)
(* Table2d: iteration and union of two tables.                             *)
(***************************************************************************)
MaxRows == 2

MaxIteratorIndex == 3

Cells == {JNum(1), JNum(2)}

RECURSIVE RowsOver(_, _)
\* The rows of a given width over a set of cells.
RowsOver(width, cells) ==
  IF width = 0 THEN {<<>>}
  ELSE {Append(row, cell) : row \in RowsOver(width - 1, cells), cell \in cells}

RECURSIVE RowListsOver(_, _)
\* The row lists of at most n rows.
RowListsOver(n, rows) ==
  IF n = 0 THEN {<<>>}
  ELSE LET shorter == RowListsOver(n - 1, rows)
       IN shorter \cup {Append(list, row) : list \in shorter, row \in rows}

\* The rectangular tables with the given columns.
TablesOver(columns, cells) ==
  {Table2d(columns, rows) :
     rows \in RowListsOver(MaxRows, RowsOver(Len(columns), cells))}

FirstColumns == <<"x", "y">>

SecondColumnLists == {<<"x", "y">>, <<"y", "x">>, <<"y">>, <<"z">>}

IdleValidator ==
  /\ schema = Leaf("null")
  /\ paramValue = JUndefined
  /\ slug = ""
  /\ IdleResponse

InitTables ==
  /\ table1 \in TablesOver(FirstColumns, Cells)
  /\ \E columns \in SecondColumnLists : table2 \in TablesOver(columns, Cells)
  /\ call = [op |-> "none"]
  /\ IdleValidator
  /\ result = NotCalled
  /\ pc = "call"

\* One `for (const row of table)` loop that collects the rows it meets.
Iterate ==
  \/ /\ table1.iteratorIndex < MaxIteratorIndex
     /\ table1' = ForOf(table1, <<>>).table
     /\ result' = Returned(ForOf(table1, <<>>).rows)
     /\ call' = [op |-> "forOf", this |-> 1]
     /\ pc' = "done"
     /\ UNCHANGED <<schema, paramValue, slug, errorArg, statusArg, table2>>
  \/ /\ table2.iteratorIndex < MaxIteratorIndex
     /\ table2' = ForOf(table2, <<>>).table
     /\ result' = Returned(ForOf(table2, <<>>).rows)
     /\ call' = [op |-> "forOf", this |-> 2]
     /\ pc' = "done"
     /\ UNCHANGED <<schema, paramValue, slug, errorArg, statusArg, table1>>

\* table1.union(table2) or table2.union(table1).
Union ==
  /\ table1.iteratorIndex < MaxIteratorIndex
  /\ table2.iteratorIndex < MaxIteratorIndex
  /\ \/ /\ table1' = union(table1, table2).this
        /\ table2' = union(table1, table2).table
        /\ result' = Returned(union(table1, table2).value)
        /\ call' = [op |-> "union", this |-> 1]
     \/ /\ table2' = union(table2, table1).this
        /\ table1' = union(table2, table1).table
        /\ result' = Returned(union(table2, table1).value)
        /\ call' = [op |-> "union", this |-> 2]
  /\ pc' = "done"
  /\ UNCHANGED <<schema, paramValue, slug, errorArg, statusArg>>

NextTables == Iterate \/ Union

SpecTables == InitTables /\ [][NextTables]_vars

(***************************************************************************)
(* Table2dJoin: one call of on for the join of two tables.                 *)
(***************************************************************************)
NullableCells == Cells \cup {JNull}

JoinedColumnLists == {<<"y", "x">>, <<"y">>, <<"z">>}

ColumnNames == {"x", "y", "z"}

InitJoin ==
  /\ table1 \in TablesOver(FirstColumns, NullableCells)
  /\ \E columns \in JoinedColumnLists :
       table2 \in TablesOver(columns, NullableCells)
  /\ call = [op |-> "none"]
  /\ IdleValidator
  /\ result = NotCalled
  /\ pc = "call"

\* table1.join(table2).on(table1Column, table2Column).
On ==
  /\ pc = "call"
  /\ \E table1Column \in ColumnNames, table2Column \in ColumnNames :
       /\ result' = Returned(on(table1, table2, table1Column, table2Column))
       /\ call' = [op |-> "on", table1Column |-> table1Column,
                   table2Column |-> table2Column]
  /\ pc' = "done"
  /\ UNCHANGED <<schema, paramValue, slug, errorArg, statusArg, table1, table2>>

NextJoin == On

SpecJoin == InitJoin /\ [][NextJoin]_vars

(***************************************************************************)
(* Table2d: one call of summarize on a table of three columns.             *)
(***************************************************************************)
SummarizedColumns == <<"x", "y", "z">>

\* Lists of at most one column.
ShortColumnLists == {<<>>} \cup {<<label>> : label \in ColumnNames}

\* The arguments of summarize: no column is named twice.
SummarizeArguments ==
  {args \in ShortColumnLists \X ShortColumnLists \X ShortColumnLists :
     \A m, n \in 1..3 :
       m # n => \A label \in ColumnNames :
                  ~(IncludesItem(args[m], label) /\ IncludesItem(args[n], label))}

InitSummarize ==
  /\ table1 \in TablesOver(SummarizedColumns, NullableCells)
  /\ table2 = Table2d(<<>>, <<>>)
  /\ call = [op |-> "none"]
  /\ IdleValidator
  /\ result = NotCalled
  /\ pc = "call"

\* table1.summarize(groupColumns, sumColumns, countColumns).
Summarize ==
  /\ pc = "call"
  /\ \E args \in SummarizeArguments :
       /\ result' = Returned(summarize(table1, args[1], args[2], args[3]))
       /\ call' = [op |-> "summarize", groupColumns |-> args[1],
                   sumColumns |-> args[2], countColumns |-> args[3]]
  /\ pc' = "done"
  /\ UNCHANGED <<schema, paramValue, slug, errorArg, statusArg, table1, table2>>

NextSummarize == Summarize

SpecSummarize == InitSummarize /\ [][NextSummarize]_vars

(***************************************************************************)
(* Claims about overloaded schemas.                                        *)
(***************************************************************************)
Called == pc = "done"

IsOverloadedCall == Called /\ schema.type = "overloaded" /\ paramValue # JUndefined

\* What alternative i of the overloaded schema produces on its own.
AlternativeResult(i) == validateRequestParam(paramValue, schema.overloads[i])

\* C1: for a well-formed schema and a JSON-compatible value or undefined the
\* call returns null or an error record; it never throws.
C1_NeverThrows == Called => result.kind \in {"null", "error"}

\* C2: for an overloaded schema and a defined value the call returns null if
\* and only if at least one alternative, validated on its own, returns null.
C2_OverloadedValidIffSomeAlternative ==
  IsOverloadedCall =>
    (result = Valid <=> \E i \in DOMAIN schema.overloads : AlternativeResult(i) = Valid)

\* C3: for an overloaded schema, when no alternative accepts the value and
\* some alternative returns an error that is neither incorrect-type nor
\* incorrect-value, the call returns such an alternative's error.
C3_OtherErrorsSurface ==
  (/\ IsOverloadedCall
   /\ \A i \in DOMAIN schema.overloads : AlternativeResult(i) # Valid
   /\ \E i \in DOMAIN schema.overloads :
        AlternativeResult(i).kind = "error" /\ ~IsCountedError(AlternativeResult(i)))
  => \E i \in DOMAIN schema.overloads :
       /\ AlternativeResult(i).kind = "error"
       /\ ~IsCountedError(AlternativeResult(i))
       /\ result = AlternativeResult(i)

\* The expected-type text C4 describes: each alternative's type tag, a tuple
\* followed by its position types, an array by its element type.
C4_AlternativeText(overload) ==
  CASE overload.type = "tuple" ->
         "tuple (" \o JoinWith([i \in DOMAIN overload.tupleType |->
                                  overload.tupleType[i].type], ", ") \o ")"
    [] overload.type = "array" -> "array (" \o overload.arrayType.type \o ")"
    [] OTHER -> overload.type

C4_ExpectedText ==
  JoinWith([i \in DOMAIN schema.overloads |-> C4_AlternativeText(schema.overloads[i])],
           " | ")

\* C4: when every alternative of an overloaded schema fails, the call returns
\* wrong-parameter-type naming the schema's param (or the root name), the
\* value's inferred type and the text listing the alternatives.
C4_AllFailedIsWrongType ==
  (/\ IsOverloadedCall
   /\ \A i \in DOMAIN schema.overloads : AlternativeResult(i) # Valid)
  => result = ErrorRecord(400, "Request Error - Incorrect Parameter Type",
                "The parameter '" \o ParamOrRoot(schema) \o "' has the type '"
                  \o jsonType(paramValue) \o "', but was expected to have the type '"
                  \o C4_ExpectedText \o "' instead.")

(***************************************************************************)
(* Claims about object schemas.                                            *)
(***************************************************************************)
IsObjectCall == Called /\ schema.type = "object" /\ paramValue.k = "object"

\* A declared property that is optional and absent from the value.
IsOmittedOptional(p) == ~IsRequired(p) /\ p.param \notin OwnKeys(paramValue)

IsKept(p) == ~IsOmittedOptional(p)

\* The schema without its omitted optional properties.
C5_WithoutOmitted == [schema EXCEPT !.properties = SelectSeq(schema.properties, IsKept)]

\* C5: a declared property that is optional and absent from the value
\* contributes no error, whatever its own schema demands (the call gives what
\* it gives for the schema without that property), and an undefined value
\* with an optional schema is valid.
C5_OmittedOptionalIsIgnored ==
  /\ IsObjectCall => result = validateRequestParam(paramValue, C5_WithoutOmitted)
  /\ (Called /\ paramValue = JUndefined /\ ~IsRequired(schema)) => result = Valid

\* Witness of C5: an omitted optional property whose own schema has a
\* required property, a tuple or an enumeration, in a call that is valid.
C5_Witness ==
  /\ IsObjectCall
  /\ result = Valid
  /\ \E i \in DOMAIN schema.properties :
       /\ IsOmittedOptional(schema.properties[i])
       /\ schema.properties[i].type = "object"
       /\ \E j \in DOMAIN schema.properties[i].properties :
            IsRequired(schema.properties[i].properties[j])

\* The declared properties that are required and absent from the value.
MissingRequired ==
  {i \in DOMAIN schema.properties :
     IsRequired(schema.properties[i])
       /\ schema.properties[i].param \notin OwnKeys(paramValue)}

Minimum(S) == CHOOSE i \in S : \A j \in S : i <= j

\* C6: when a declared required property is absent from the object value the
\* call returns missing-required-parameter naming the first such property in
\* declaration order, whatever the keys of the value are.
C6_MissingRequiredFirst ==
  (IsObjectCall /\ MissingRequired # {})
  => result = ErrorRecord(400, "Request Error - Missing Required Parameter",
                "The parameter '" \o schema.properties[Minimum(MissingRequired)].param
                  \o "' was missing from the request, but is required for this endpoint.")

\* The entries of the value whose key no declared property carries.
Undeclared ==
  {i \in DOMAIN paramValue.entries :
     \A j \in DOMAIN schema.properties :
       schema.properties[j].param # paramValue.entries[i].key}

UnexpectedName(key) ==
  ErrorRecord(400, "Request Error - Invalid Parameter Name",
    "The parameter with name '" \o key \o "' was unexpected in this request.")

DeclaredSchema(i) ==
  schema.properties[CHOOSE j \in DOMAIN schema.properties :
                      schema.properties[j].param = paramValue.entries[i].key]

C8_EnumeratedByStrictEquality ==
  (Called /\ schema.type = "values" /\ paramValue # JUndefined)
  => IF \E i \in DOMAIN schema.values : schema.values[i] = paramValue
     THEN result = Valid
     ELSE result = ErrorRecord(400, "Request Error - Incorrect Parameter Value",
                     "The parameter '" \o ParamOrRoot(schema) \o "' with the value '"
                       \o StringOf(paramValue)
                       \o "' was not found in the expected value list: '"
                       \o JsonStringify(schema.values) \o "'")

IsShortTupleCall ==
  /\ Called
  /\ schema.type = "tuple"
  /\ paramValue.k = "array"
  /\ Len(paramValue.items) < Len(schema.tupleType)

MissingPosition ==
  ErrorRecord(400, "Request Error - Missing Required Parameter",
    "The parameter '" \o ParamOrRoot(schema) \o " tuple, index "
      \o ToString(Len(paramValue.items))
      \o "' was missing from the request, but is required for this endpoint.")

\* C9 as stated: an array shorter than the tuple yields
\* missing-required-parameter naming the first missing index, whatever the
\* elements that are present.
C9_ShortTupleAlwaysMissing == IsShortTupleCall => result = MissingPosition

\* What the element at (1-based) position i produces against its position.
PositionResult(i) == validateRequestParam(paramValue.items[i], schema.tupleType[i])

FailingPositions == {i \in DOMAIN paramValue.items : PositionResult(i) # Valid}

\* C9 as amended: an array shorter than the tuple yields
\* missing-required-parameter naming the first missing index when every
\* element that is present is valid for its position, and otherwise the
\* error of the first present element that is not.
C9_ShortTupleAfterPresentElements ==
  IsShortTupleCall =>
    IF FailingPositions = {} THEN result = MissingPosition
    ELSE result = PositionResult(Minimum(FailingPositions))

\* Witness of C9: a short array with a valid element, reported missing at 1.
C9_Witness ==
  /\ IsShortTupleCall
  /\ Len(paramValue.items) = 1
  /\ FailingPositions = {}
  /\ "param" \in DOMAIN schema
  /\ result = MissingPosition

ExactTypes == {"string", "number", "boolean", "null", "object", "array"}

\* C10: for a schema typed string, number, boolean, null, object or array and
\* a defined value whose inferred type differs from it, the call returns
\* wrong-parameter-type carrying the param (or the root name), the inferred
\* type and the declared type, whatever lies below the node.
C10_MismatchIsWrongType ==
  (/\ Called
   /\ schema.type \in ExactTypes
   /\ paramValue # JUndefined
   /\ jsonType(paramValue) \notin ThrownNames
   /\ jsonType(paramValue) # schema.type)
  => result = ErrorRecord(400, "Request Error - Incorrect Parameter Type",
                "The parameter '" \o ParamOrRoot(schema) \o "' has the type '"
                  \o jsonType(paramValue) \o "', but was expected to have the type '"
                  \o schema.type \o "' instead.")

\* Witness of C10: an object with entries against an array schema whose
\* element schema is never looked at.
C10_Witness ==
  /\ Called
  /\ schema.type = "array"
  /\ paramValue.k = "object"
  /\ paramValue.entries # <<>>
  /\ result.kind = "error"
  /\ result.name = "Request Error - Incorrect Parameter Type"

(***************************************************************************)
(* Claims about primitive and tuple schemas, arrays and conforming values. *)
(***************************************************************************)
JsonTypeNames == {"string", "number", "boolean", "null", "array", "object"}

\* A wrong-parameter-type record for the call's node with the given expected
\* type, whatever the type it reports for the value.
IsWrongTypeExpecting(r, expected) ==
  \E t \in JsonTypeNames :
    r = ErrorRecord(400, "Request Error - Incorrect Parameter Type",
          "The parameter '" \o ParamOrRoot(schema) \o "' has the type '" \o t
            \o "', but was expected to have the type '" \o expected \o "' instead.")

\* C11: a schema typed 'primitive' returns null for every string, number,
\* boolean and null value and wrong-parameter-type expecting 'primitive' for
\* every array and object value; a schema typed 'tuple' returns
\* wrong-parameter-type expecting 'tuple' for every value that is not an array.
C11_PrimitiveAndTupleLooseness ==
  /\ (Called /\ schema.type = "primitive" /\ IsPrimitiveValue(paramValue))
       => result = Valid
  /\ (Called /\ schema.type = "primitive" /\ paramValue.k \in {"array", "object"})
       => IsWrongTypeExpecting(result, "primitive")
  /\ (Called /\ schema.type = "tuple" /\ paramValue.k \notin {"array", "undefined"})
       => IsWrongTypeExpecting(result, "tuple")

IsArrayCall == Called /\ schema.type = "array" /\ paramValue.k = "array"

\* What element i (1-based) of the array produces against the element schema.
ElementResult(i) == validateRequestParam(paramValue.items[i], schema.arrayType)

FailingElements == {i \in DOMAIN paramValue.items : ElementResult(i) # Valid}

\* C12: for an array schema and an array value the call gives what the
\* lowest-index element that fails against arrayType gives, and null when
\* every element passes (the empty array included); later elements do not
\* matter.
C12_FirstFailingElement ==
  IsArrayCall =>
    IF FailingElements = {} THEN result = Valid
    ELSE result = ElementResult(Minimum(FailingElements))

\* Witness of C12: two elements that fail differently; the first one's error
\* is returned.
C12_Witness ==
  /\ IsArrayCall
  /\ Len(paramValue.items) = 2
  /\ FailingElements = {1, 2}
  /\ ElementResult(1) # ElementResult(2)
  /\ result.kind = "error"
  /\ result = ElementResult(1)

RECURSIVE Conforms(_, _)
\* A value that conforms to a schema at every node, by the JSON kind of each
\* value: declared type matched, required properties present, no undeclared
\* key, elements and declared positions conforming, enumerated values in
\* their set, an overloaded node matched by one of its alternatives.
Conforms(val, s) ==
  CASE s.type \in {"string", "number", "boolean", "null"} -> val.k = s.type
    [] s.type = "primitive" -> IsPrimitiveValue(val)
    [] s.type = "values" -> \E i \in DOMAIN s.values : s.values[i] = val
    [] s.type = "array" ->
         /\ val.k = "array"
         /\ \A i \in DOMAIN val.items : Conforms(val.items[i], s.arrayType)
    [] s.type = "tuple" ->
         /\ val.k = "array"
         /\ Len(val.items) >= Len(s.tupleType)
         /\ \A i \in DOMAIN s.tupleType : Conforms(val.items[i], s.tupleType[i])
    [] s.type = "object" ->
         /\ val.k = "object"
         /\ \A j \in DOMAIN s.properties :
              IsRequired(s.properties[j]) => s.properties[j].param \in OwnKeys(val)
         /\ \A i \in DOMAIN val.entries :
              \E j \in DOMAIN s.properties :
                /\ s.properties[j].param = val.entries[i].key
                /\ Conforms(val.entries[i].val, s.properties[j])
    [] s.type = "overloaded" ->
         \E i \in DOMAIN s.overloads : Conforms(val, s.overloads[i])

\* C13: a value that conforms to the schema at every node makes the call
\* return null.
C13_ConformingIsValid ==
  (Called /\ paramValue # JUndefined /\ Conforms(paramValue, schema)) => result = Valid

\* C14: every result that is not null is a record with status 400 and one of
\* the four fixed names.
C14_ErrorsAreBadRequests ==
  (Called /\ result.kind # "throw" /\ result # Valid)
  => /\ result.kind = "error"
     /\ DOMAIN result = {"kind", "status", "name", "message"}
     /\ result.status = 400
     /\ result.name \in {"Request Error - Missing Required Parameter",
                         "Request Error - Invalid Parameter Name",
                         "Request Error - Incorrect Parameter Type",
                         "Request Error - Incorrect Parameter Value"}

\* Witness of C14: an invalid-parameter-name error is returned.
C14_Witness ==
  /\ Called
  /\ result.kind = "error"
  /\ result.name = "Request Error - Invalid Parameter Name"
  /\ result.status = 400

(***************************************************************************)
(* Claims about the name an error carries and about jsonType.              *)
(***************************************************************************)
\* What stands for an undeclared key, which no schema node describes.
KeyNode == [type |-> "key", param |-> "key"]

RECURSIVE RaisedAt(_, _)
\* The schema node the error of validating val against s is raised for: s
\* itself when one of its own checks fails (a missing tuple position is a
\* check of the tuple), otherwise the node inside the first failing child.
RaisedAt(val, s) ==
  IF val = JUndefined \/ IsInvalidValue(val, s) \/ validateRequestParamType(val, s) # Valid
  THEN s
  ELSE IF s.type = "tuple"
  THEN LET bad == {i \in DOMAIN s.tupleType :
                     \/ ElementAt(val, i - 1) = JUndefined
                     \/ validateRequestParam(ElementAt(val, i - 1), s.tupleType[i]) # Valid}
           i == Minimum(bad)
       IN IF ElementAt(val, i - 1) = JUndefined THEN s
          ELSE RaisedAt(ElementAt(val, i - 1), s.tupleType[i])
  ELSE IF val.k = "array"
  THEN LET bad == {i \in DOMAIN val.items :
                     validateRequestParam(val.items[i], s.arrayType) # Valid}
       IN RaisedAt(val.items[Minimum(bad)], s.arrayType)
  ELSE IF FirstMissingRequired(val, s) # 0
  THEN s.properties[FirstMissingRequired(val, s)]
  ELSE LET bad == {i \in DOMAIN val.entries :
                     \/ FindProperty(s, val.entries[i].key) = 0
                     \/ validateRequestParam(val.entries[i].val,
                          s.properties[FindProperty(s, val.entries[i].key)]) # Valid}
           i == Minimum(bad)
       IN IF FindProperty(s, val.entries[i].key) = 0 THEN KeyNode
          ELSE RaisedAt(val.entries[i].val,
                 s.properties[FindProperty(s, val.entries[i].key)])

StartsWith(str, prefix) ==
  Len(str) >= Len(prefix) /\ SubSeq(str, 1, Len(prefix)) = prefix

\* The message names the parameter '[root or array member]' (for a missing
\* tuple position, followed by ' tuple, index' and the position).
NamesRoot(message) ==
  \/ StartsWith(message, "The parameter '[root or array member]' ")
  \/ StartsWith(message, "The parameter '[root or array member] tuple, index ")

\* C15: an error raised for a node with no param (the schema root, an array
\* element, a tuple position) names the parameter '[root or array member]',
\* also for a tuple position inside a named tuple property.
C15_UnnamedNodeNamesRoot ==
  (/\ Called
   /\ result.kind = "error"
   /\ "param" \notin DOMAIN RaisedAt(paramValue, schema))
  => NamesRoot(result.message)

\* Witness of C15: a type error at a position of a named tuple property.
C15_Witness ==
  /\ IsObjectCall
  /\ result.kind = "error"
  /\ result.name = "Request Error - Incorrect Parameter Type"
  /\ NamesRoot(result.message)
  /\ \E i \in DOMAIN schema.properties :
       /\ schema.properties[i].type = "tuple"
       /\ schema.properties[i].param \in OwnKeys(paramValue)
       /\ validateRequestParam(OwnProperty(paramValue, schema.properties[i].param),
                               schema.properties[i]) = result

\* C16: jsonType classifies every JSON value by its JSON kind (an object with
\* a key named 'length' or 'constructor' is still 'object') and throws for
\* none of them.
C16_ClassifiesByJsonKind ==
  (Called /\ paramValue # JUndefined) => jsonType(paramValue) = paramValue.k

(***************************************************************************)
(* Claims about the order of the walk and about the inputs of a call.      *)
(***************************************************************************)
\* What entry i of the object value produces against its declared schema.
EntryResult(i) == validateRequestParam(paramValue.entries[i].val, DeclaredSchema(i))

\* The entries whose key is undeclared or whose value fails its schema.
OffendingEntries ==
  {i \in DOMAIN paramValue.entries : i \in Undeclared \/ EntryResult(i) # Valid}

\* C18: for an object value in which every declared required property is
\* present the call gives the error of the first key, in insertion order,
\* that is undeclared (wrong-parameter-name naming it) or whose value fails
\* its declared schema; later keys do not matter, and with no such key the
\* result is null.
C18_FirstOffendingKey ==
  (IsObjectCall /\ MissingRequired = {})
  => IF OffendingEntries = {} THEN result = Valid
     ELSE IF Minimum(OffendingEntries) \in Undeclared
     THEN result = UnexpectedName(paramValue.entries[Minimum(OffendingEntries)].key)
     ELSE result = EntryResult(Minimum(OffendingEntries))

IsLongTupleCall ==
  /\ Called
  /\ schema.type = "tuple"
  /\ paramValue.k = "array"
  /\ Len(paramValue.items) >= Len(schema.tupleType)

FailingDeclaredPositions == {i \in DOMAIN schema.tupleType : PositionResult(i) # Valid}

\* C19: for a tuple schema and an array at least as long as tupleType the
\* call gives the error of the lowest declared position whose element fails,
\* or null when all declared positions pass; elements beyond the declared
\* length are never validated.
C19_DeclaredPositionsOnly ==
  IsLongTupleCall =>
    IF FailingDeclaredPositions = {} THEN result = Valid
    ELSE result = PositionResult(Minimum(FailingDeclaredPositions))

\* Witness of C19: an array longer than the tuple whose extra element would
\* fail the last declared position, in a call that is valid.
C19_Witness ==
  /\ IsLongTupleCall
  /\ Len(schema.tupleType) >= 1
  /\ Len(paramValue.items) > Len(schema.tupleType)
  /\ validateRequestParam(paramValue.items[Len(paramValue.items)],
                          schema.tupleType[Len(schema.tupleType)]) # Valid
  /\ result = Valid

\* C20: a call modifies neither the schema nor the input value.
C20_InputsUnchanged == [][schema' = schema /\ paramValue' = paramValue]_vars

\* Witness of C20: a call on a composite schema and a composite value has
\* returned an error.
C20_Witness ==
  /\ Called
  /\ schema.type = "overloaded"
  /\ paramValue.k = "array"
  /\ paramValue.items # <<>>
  /\ result.kind = "error"

(***************************************************************************)
(* Claims about custom ids.                                                *)
(***************************************************************************)
CapitalLetters ==
  {"A", "B", "C", "D", "E", "F", "G", "H", "I", "J", "K", "L", "M", "N", "O", "P",
   "Q", "R", "S", "T", "U", "V", "W", "X", "Y", "Z"}

Digits == {"0", "1", "2", "3", "4", "5", "6", "7", "8", "9"}

CharactersOf(str) == {SubSeq(str, i, i) : i \in 1..Len(str)}

Children(s) ==
  (IF "properties" \in DOMAIN s
   THEN {s.properties[i] : i \in DOMAIN s.properties} ELSE {})
    \cup (IF "arrayType" \in DOMAIN s THEN {s.arrayType} ELSE {})
    \cup (IF "tupleType" \in DOMAIN s
          THEN {s.tupleType[i] : i \in DOMAIN s.tupleType} ELSE {})
    \cup (IF "overloads" \in DOMAIN s
          THEN {s.overloads[i] : i \in DOMAIN s.overloads} ELSE {})

Maximum(S) == CHOOSE i \in S : \A j \in S : i >= j

RECURSIVE SchemaDepth(_)
\* The depth of a schema tree; a node without sub-nodes has depth 1.
SchemaDepth(s) == 1 + Maximum({0} \cup {SchemaDepth(c) : c \in Children(s)})

\* The last index a loop over 1..n reaches when it stops at the first index
\* of stop.
LastReached(stop, n) == IF stop = {} THEN n ELSE Minimum(stop)

\* DirectCalls as it would be if an array element were validated against the
\* array schema itself.
DirectCalls_ElementAgainstArray(val, s) ==
  IF val.k = "array" /\ s.type = "array" /\ val.items # <<>>
  THEN {<<val.items[1], s>>}
  ELSE {}

\* The recursive calls <<value, schema>> that one call of
\* validateRequestParam(val, s) makes itself: every alternative of an
\* overloaded schema (up to one that throws), the tuple positions, array
\* elements or object entries up to the first one that stops the loop.
DirectCalls(val, s) ==
  IF val = JUndefined \/ IsInvalidValue(val, s) \/ jsonType(val) \in ThrownNames
  THEN {}
  ELSE IF s.type = "overloaded"
  THEN LET throwing == {i \in DOMAIN s.overloads :
                          validateRequestParam(val, s.overloads[i]).kind = "throw"}
       IN {<<val, s.overloads[i]>> : i \in 1..LastReached(throwing, Len(s.overloads))}
  ELSE IF validateRequestParamType(val, s) # Valid THEN {}
  ELSE IF s.type = "tuple"
  THEN LET stop == {i \in DOMAIN s.tupleType :
                      \/ ElementAt(val, i - 1) = JUndefined
                      \/ validateRequestParam(ElementAt(val, i - 1), s.tupleType[i]) # Valid}
       IN {<<ElementAt(val, i - 1), s.tupleType[i]>> :
             i \in {j \in 1..LastReached(stop, Len(s.tupleType)) :
                      ElementAt(val, j - 1) # JUndefined}}
  ELSE IF jsonType(val) = "array"
  THEN IF val.k # "array" \/ "arrayType" \notin DOMAIN s THEN {}
       ELSE LET stop == {i \in DOMAIN val.items :
                           validateRequestParam(val.items[i], s.arrayType) # Valid}
            IN {<<val.items[i], s.arrayType>> :
                  i \in 1..LastReached(stop, Len(val.items))}
  ELSE IF jsonType(val) = "object"
            /\ "properties" \in DOMAIN s /\ FirstMissingRequired(val, s) = 0
  THEN LET stop == {i \in DOMAIN val.entries :
                      \/ FindProperty(s, val.entries[i].key) = 0
                      \/ validateRequestParam(val.entries[i].val,
                           s.properties[FindProperty(s, val.entries[i].key)]) # Valid}
       IN {<<val.entries[i].val, s.properties[FindProperty(s, val.entries[i].key)]>> :
             i \in {j \in 1..LastReached(stop, Len(val.entries)) :
                      FindProperty(s, val.entries[j].key) # 0}}
  ELSE {}

RECURSIVE CallDepth(_, _)
\* The depth the recursion reaches in the call validateRequestParam(val, s).
CallDepth(val, s) ==
  1 + Maximum({0} \cup {CallDepth(c[1], c[2]) : c \in DirectCalls(val, s)})

RECURSIVE CallsDescend(_, _)
\* Every recursive call, at any depth, is made on a direct sub-node of the
\* schema of the call that makes it.
CallsDescend(val, s) ==
  \A c \in DirectCalls(val, s) : c[2] \in Children(s) /\ CallsDescend(c[1], c[2])

\* C21: the call ends, every recursive call is made on a strict sub-node of
\* the schema, and the recursion depth never exceeds the depth of the schema.
C21_RecursionBoundedBySchema ==
  Called =>
    /\ result.kind \in {"null", "error", "throw"}
    /\ CallsDescend(paramValue, schema)
    /\ CallDepth(paramValue, schema) <= SchemaDepth(schema)

\* Witness of C21: a call that went three levels deep on a value nested
\* deeper than the part of it that was walked.
C21_Witness ==
  /\ Called
  /\ SchemaDepth(schema) = 3
  /\ CallDepth(paramValue, schema) = 3
  /\ result.kind = "error"

(***************************************************************************)
(* Claims about the invalid-parameter-value message.                       *)
(***************************************************************************)
IsRootValueError ==
  /\ Called
  /\ schema.type = "values"
  /\ result.kind = "error"
  /\ result.name = "Request Error - Incorrect Parameter Value"

\* The message of the taxonomy table without its final period.
C22_MessageBody ==
  "The parameter '" \o ParamOrRoot(schema) \o "' with the value '"
    \o StringOf(paramValue) \o "' was not found in the expected value list: '"
    \o JsonStringify(schema.values) \o "'"

EndsWith(str, suffix) ==
  Len(str) >= Len(suffix)
    /\ SubSeq(str, Len(str) - Len(suffix) + 1, Len(str)) = suffix

\* C22 as stated: the message of an invalid-parameter-value error is the
\* template of the taxonomy table, final period included.
C22_MessageAsTabulated == IsRootValueError => result.message = C22_MessageBody \o "."

\* C22 as amended: the message of an invalid-parameter-value error is the
\* template with its three placeholders interpolated and ends with the
\* closing quote of the allowed set, without a period.
C22_MessageWithoutPeriod ==
  /\ IsRootValueError => result.message = C22_MessageBody
  /\ (Called /\ result.kind = "error"
        /\ result.name = "Request Error - Incorrect Parameter Value")
       => EndsWith(result.message, "]'")

\* Witness of C22: an invalid-parameter-value error for a named enumerated
\* schema and a string outside the set.
C22_Witness ==
  /\ IsRootValueError
  /\ "param" \in DOMAIN schema
  /\ paramValue = JStr("1")
  /\ result.message = C22_MessageBody

(***************************************************************************)
(* Claims about the two variants, undefined values and null properties.    *)
(***************************************************************************)
\* C23: for every schema without a 'values' or 'overloaded' node and every
\* JSON value or undefined, the validateRequestParam of restlet.ts and the
\* extended variant give the same result.
C23_VariantsAgree ==
  /\ (Called /\ IsRestletTsSchema(schema))
       => result = restletTs_validateRequestParam(paramValue, schema)
  /\ pc = "doneRestletTs" => result = validateRequestParam(paramValue, schema)

\* Witness of C23: the restlet.ts variant has returned a type error found at
\* a position of a tuple property.
C23_Witness ==
  /\ pc = "doneRestletTs"
  /\ schema.type = "object"
  /\ \E i \in DOMAIN schema.properties : schema.properties[i].type = "tuple"
  /\ result.kind = "error"
  /\ result.name = "Request Error - Incorrect Parameter Type"
  /\ NamesRoot(result.message)

\* C24: an undefined value validated against a schema that has no true
\* required flag, whatever its type, is valid; a root schema carries none.
C24_UndefinedWithoutRequiredIsValid ==
  (/\ Called
   /\ paramValue = JUndefined
   /\ ~("required" \in DOMAIN schema /\ schema.required = TRUE))
  => result = Valid

\* Witness of C24: undefined against a root object schema that declares a
\* required property.
C24_Witness ==
  /\ Called
  /\ paramValue = JUndefined
  /\ "required" \notin DOMAIN schema
  /\ schema.type = "object"
  /\ \E i \in DOMAIN schema.properties : IsRequired(schema.properties[i])
  /\ result = Valid

\* A schema that accepts null by itself.
C25_AcceptsNullItself(d) ==
  \/ d.type \in {"null", "primitive"}
  \/ d.type = "values" /\ \E j \in DOMAIN d.values : d.values[j] = JNull

\* The schemas C25 says accept null.
C25_AcceptsNull(d) ==
  \/ C25_AcceptsNullItself(d)
  \/ d.type = "overloaded"
       /\ \E j \in DOMAIN d.overloads : C25_AcceptsNullItself(d.overloads[j])

\* The error C25 says a null yields against a schema that does not accept it.
C25_IsNullError(r, d) ==
  /\ r.kind = "error"
  /\ r.status = 400
  /\ IF d.type = "values"
     THEN /\ r.name = "Request Error - Incorrect Parameter Value"
          /\ StartsWith(r.message,
               "The parameter '" \o d.param \o "' with the value 'null' was not found")
     ELSE /\ r.name = "Request Error - Incorrect Parameter Type"
          /\ StartsWith(r.message,
               "The parameter '" \o d.param \o "' has the type 'null', but was expected")

\* The entries that hold null under a declared optional property.
NullOptionalEntries ==
  {i \in DOMAIN paramValue.entries :
     /\ paramValue.entries[i].val = JNull
     /\ i \notin Undeclared
     /\ ~IsRequired(DeclaredSchema(i))}

\* The walk over the entries reaches entry i: the value is taken for an
\* object, no required property is missing and the entries before i pass.
WalkReaches(i) ==
  /\ jsonType(paramValue) = "object"
  /\ MissingRequired = {}
  /\ \A j \in 1..(i - 1) : j \notin Undeclared /\ EntryResult(j) = Valid

\* C25: an optional property present with the value null is validated like
\* any present value: it passes only for a schema typed 'null' or
\* 'primitive', an enumerated set containing null or an overloaded schema
\* with such an alternative, and otherwise yields wrong-parameter-type with
\* actual type 'null' (invalid-parameter-value for an enumerated schema),
\* which is the call's result when the walk reaches the property.
C25_NullIsNotOmitted ==
  IsObjectCall =>
    \A i \in NullOptionalEntries :
      /\ IF C25_AcceptsNull(DeclaredSchema(i)) THEN EntryResult(i) = Valid
         ELSE C25_IsNullError(EntryResult(i), DeclaredSchema(i))
      /\ (WalkReaches(i) /\ ~C25_AcceptsNull(DeclaredSchema(i)))
           => result = EntryResult(i)
      /\ (WalkReaches(i) /\ C25_AcceptsNull(DeclaredSchema(i))
            /\ i = Len(paramValue.entries))
           => result = Valid

\* Witness of C25: a null under an optional string property, after a valid
\* key, is reported with actual type 'null'.
C25_Witness ==
  /\ IsObjectCall
  /\ 2 \in NullOptionalEntries
  /\ WalkReaches(2)
  /\ DeclaredSchema(2).type = "string"
  /\ C25_IsNullError(result, DeclaredSchema(2))

(***************************************************************************)
(* Claims about asResponse.                                                *)
(***************************************************************************)
\* The error has a name and a message that are both strings.
HasStringNameAndMessage ==
  /\ errorArg.k = "object"
  /\ {"name", "message"} \subseteq OwnKeys(errorArg)
  /\ OwnProperty(errorArg, "name").k = "string"
  /\ OwnProperty(errorArg, "message").k = "string"

\* C26: asResponse returns {status, name, message} with the error's name and
\* message exactly when the status is not undefined and both are strings,
\* and in every other case the fixed record with status 500 and name
\* 'NG_UNKNOWN_ERROR'.
C26_AsResponse ==
  Called =>
    IF statusArg # JUndefined /\ HasStringNameAndMessage
    THEN result = [kind |-> "error", status |-> statusArg.n,
                   name |-> OwnProperty(errorArg, "name").s,
                   message |-> OwnProperty(errorArg, "message").s]
    ELSE result = [kind |-> "error", status |-> 500, name |-> "NG_UNKNOWN_ERROR",
                   message |-> "Something unexpected went wrong in the RESTlet endpoint."]

\* Witness of C26: status 0 and an error with an empty message are copied.
C26_Witness ==
  /\ Called
  /\ statusArg = JNum(0)
  /\ HasStringNameAndMessage
  /\ OwnProperty(errorArg, "message") = JStr("")
  /\ result.status = 0
  /\ result.name = "E"
  /\ result.message = ""

(***************************************************************************)
(* Claims about Table2d.                                                   *)
(***************************************************************************)
\* The table a call was made on, and the other one.
TableOf(n) == IF n = 1 THEN table1 ELSE table2

OtherOf(n) == IF n = 1 THEN table2 ELSE table1

\* The last call was a union that returned a table.
UnionReturnedTable == call.op = "union" /\ result.value # JNull

\* C27: a for...of loop over a table meets every row of the table, in order,
\* each time; and a union that returns a table returns one with
\* a.length() + b.length() rows, whatever was iterated or united before.
C27_EveryIterationYieldsEveryRow ==
  /\ call.op = "forOf" => result.value = TableOf(call.this).rows
  /\ UnionReturnedTable =>
       Len(result.value.rows) = length(table1) + length(table2)

\* The values of a source row under the given columns, in their order.
Projected(t, row, columns) ==
  [k \in DOMAIN columns |-> row[getColumnIndexByName(t, columns[k]) + 1]]

\* C29: in a union that kept every row of both tables, the value at position
\* k of each result row is its source row's value under the column named
\* unionColumns[k], for the rows of the first and of the second table.
C29_UnionRowsAligned ==
  (UnionReturnedTable
     /\ Len(result.value.rows) = length(table1) + length(table2)) =>
    LET this == TableOf(call.this)
        other == OtherOf(call.this)
        united == result.value
    IN /\ \A p \in DOMAIN this.rows :
            united.rows[p] = Projected(this, this.rows[p], united.columns)
       /\ \A p \in DOMAIN other.rows :
            united.rows[Len(this.rows) + p]
              = Projected(other, other.rows[p], united.columns)

\* The pairs of row indices whose values under the joined columns are equal
\* and not null.
MatchingPairs ==
  {pair \in (0..(length(table1) - 1)) \X (0..(length(table2) - 1)) :
     /\ get(table1, pair[1], call.table1Column)
          = get(table2, pair[2], call.table2Column)
     /\ get(table1, pair[1], call.table1Column) # JNull}

\* Row i of table1 followed by row j of table2.
Concatenated(pair) == table1.rows[pair[1] + 1] \o table2.rows[pair[2] + 1]

\* C28: on returns one row for every pair (i, j) whose values under the two
\* columns are equal and not null, and that row is table1's row i followed by
\* table2's row j: every row occurs as often as there are pairs it is the
\* concatenation of.
C28_OneConcatenatedRowPerPair ==
  call.op = "on" =>
    LET joined == result.value.rows
    IN /\ Len(joined) = Cardinality(MatchingPairs)
       /\ \A pair \in MatchingPairs :
            Cardinality({k \in DOMAIN joined : joined[k] = Concatenated(pair)})
              = Cardinality({other \in MatchingPairs :
                               Concatenated(other) = Concatenated(pair)})

\* The values of row i of table1 under the group columns.
GroupOf(i) ==
  [p \in DOMAIN call.groupColumns |-> get(table1, i, call.groupColumns[p])]

\* The distinct combinations of group-column values in table1.
Groups == {GroupOf(i) : i \in 0..(length(table1) - 1)}

\* The rows of table1 in a group.
Members(group) == {i \in 0..(length(table1) - 1) : GroupOf(i) = group}

RECURSIVE NumericSum(_, _)
\* The sum of the numbers that the given rows of table1 hold under a column.
NumericSum(rows, label) ==
  IF rows = {} THEN 0
  ELSE LET i == CHOOSE r \in rows : TRUE
           val == get(table1, i, label)
       IN (IF val.k = "number" THEN val.n ELSE 0)
            + NumericSum(rows \ {i}, label)

\* The value of a summary row under a column of the summary.
ValueUnder(row, label) == row[getColumnIndexByName(result.value, label) + 1]

\* C30: summarize returns exactly one row per distinct combination of
\* group-column values; in the row of a group each count column holds the
\* number of rows of the group and each sum column the sum of the group's
\* numeric values in that column.
C30_OneRowPerGroupWithCountsAndSums ==
  call.op = "summarize" =>
    /\ Len(result.value.rows) = Cardinality(Groups)
    /\ \A group \in Groups :
         \E k \in DOMAIN result.value.rows :
           LET row == result.value.rows[k]
           IN /\ \A p \in DOMAIN call.groupColumns :
                   ValueUnder(row, call.groupColumns[p]) = group[p]
              /\ \A p \in DOMAIN call.countColumns :
                   ValueUnder(row, call.countColumns[p])
                     = JNum(Cardinality(Members(group)))
              /\ \A p \in DOMAIN call.sumColumns :
                   ValueUnder(row, call.sumColumns[p])
                     = JNum(NumericSum(Members(group), call.sumColumns[p]))

====
